---------------------------- MODULE Spec2Model ----------------------------
(***************************************************************************)
(* Correction gating and caching pipeline of the nerd-dictation LLM        *)
(* post-processing configuration                                           *)
(* (src/examples/llm_post_processing/nerd-dictation.py).                   *)
(*                                                                         *)
(* A Python str is modelled as a sequence of one-character strings, so     *)
(* that len, split, strip, startswith and the two commentary regexes are   *)
(* computed character by character as the code computes them.              *)
(*                                                                         *)
(* Time is counted in tenths of a second: LLM_DEBOUNCE_DELAY = 0.3 s is 3. *)
(***************************************************************************)
EXTENDS Integers, Sequences, FiniteSets, TLC

\* ------------------------------------------------------------------------
\* Configuration (nerd-dictation.py lines 19-33)

LLM_ENABLED == TRUE
LLM_MIN_WORDS == 3
MIN_TEXT_LENGTH_FOR_LLM == 15
\* 0.3 s, in tenths of a second
LLM_DEBOUNCE_DELAY == 3
\* The source configures 100; the capacity is scaled down so that the model
\* fills the cache and evicts.
LLM_CACHE_MAX_SIZE == 2

\* ------------------------------------------------------------------------
\* Bounds of the model

\* number of nerd_dictation_process calls in a behaviour of Spec
MaxCalls == 2
\* number of nerd_dictation_process calls in a behaviour of SpecCache
MaxCacheCalls == 4
\* number of nerd_dictation_process calls in a behaviour of SpecSeq
MaxSeqCalls == 3
\* number of threads calling nerd_dictation_process at once in SpecThreads
NumThreads == 2

\* ------------------------------------------------------------------------
\* Python str operations

Whitespace == {" ", "\t", "\n"}
SentencePunct == {".", ",", "!", "?"}
Quotes == {"\"", "'"}

UpperChars == <<"A","B","C","D","E","F","G","H","I","J","K","L","M","N","O","P","Q","R","S","T","U","V","W","X","Y","Z">>
LowerChars == <<"a","b","c","d","e","f","g","h","i","j","k","l","m","n","o","p","q","r","s","t","u","v","w","x","y","z">>

\* str.lower() on one character (re.IGNORECASE compares case-folded text)
LowerChar(c) ==
    IF \E i \in 1..26 : UpperChars[i] = c
    THEN LowerChars[CHOOSE i \in 1..26 : UpperChars[i] = c]
    ELSE c

\* str.upper() on one character
UpperChar(c) ==
    IF \E i \in 1..26 : LowerChars[i] = c
    THEN UpperChars[CHOOSE i \in 1..26 : LowerChars[i] = c]
    ELSE c

Lower(s) == [i \in 1..Len(s) |-> LowerChar(s[i])]

\* s[i:] of Python, 1-based: the characters from position i on
From(s, i) == SubSeq(s, i, Len(s))

\* s.startswith(p)
StartsWith(s, p) == Len(p) <= Len(s) /\ SubSeq(s, 1, Len(p)) = p

\* p occurs in s at position i
OccursAt(s, p, i) == i + Len(p) - 1 <= Len(s) /\ SubSeq(s, i, i + Len(p) - 1) = p

\* p in s
Contains(s, p) == \E i \in 1..(Len(s) + 1) : OccursAt(s, p, i)

\* s.rstrip(chars)
RECURSIVE RStrip(_, _)
RStrip(s, chars) ==
    IF s # <<>> /\ s[Len(s)] \in chars THEN RStrip(SubSeq(s, 1, Len(s) - 1), chars) ELSE s

\* s.lstrip(chars)
RECURSIVE LStrip(_, _)
LStrip(s, chars) ==
    IF s # <<>> /\ s[1] \in chars THEN LStrip(Tail(s), chars) ELSE s

\* s.strip(chars)
Strip(s, chars) == RStrip(LStrip(s, chars), chars)

\* position of the first character of s at or after i that is in chars,
\* Len(s) + 1 when there is none
RECURSIVE FirstIn(_, _, _)
FirstIn(s, chars, i) ==
    IF i > Len(s) THEN Len(s) + 1
    ELSE IF s[i] \in chars THEN i
    ELSE FirstIn(s, chars, i + 1)

\* position of the first character of s at or after i that is not in chars,
\* Len(s) + 1 when there is none
RECURSIVE FirstNotIn(_, _, _)
FirstNotIn(s, chars, i) ==
    IF i > Len(s) THEN Len(s) + 1
    ELSE IF s[i] \notin chars THEN i
    ELSE FirstNotIn(s, chars, i + 1)

\* s.split(): the maximal runs of non-whitespace characters
RECURSIVE Split(_)
Split(s) ==
    LET b == FirstNotIn(s, Whitespace, 1)
        e == FirstIn(s, Whitespace, b)
    IN  IF b > Len(s) THEN <<>>
        ELSE <<SubSeq(s, b, e - 1)>> \o Split(From(s, e))

\* s.split(" "): the pieces between single spaces, empty pieces included
RECURSIVE SplitOnSpace(_)
SplitOnSpace(s) ==
    LET e == FirstIn(s, {" "}, 1)
    IN  IF e > Len(s) THEN <<s>>
        ELSE <<SubSeq(s, 1, e - 1)>> \o SplitOnSpace(From(s, e + 1))

\* " ".join(words)
RECURSIVE JoinSpace(_)
JoinSpace(words) ==
    IF words = <<>> THEN <<>>
    ELSE IF Len(words) = 1 THEN words[1]
    ELSE words[1] \o <<" ">> \o JoinSpace(Tail(words))

\* ------------------------------------------------------------------------
\* The two commentary regexes of the sanitizer (lines 123 and 125), matched
\* as re.sub matches them: leftmost match first, \s* and [^x]* greedy,
\* re.IGNORECASE.

\* (?:changes needed|pronunciation|grammar|correct)
ParenMarkers ==
    { <<"c","h","a","n","g","e","s"," ","n","e","e","d","e","d">>,
      <<"p","r","o","n","u","n","c","i","a","t","i","o","n">>,
      <<"g","r","a","m","m","a","r">>,
      <<"c","o","r","r","e","c","t">> }

\* (No changes needed|Pronunciation:|Grammar:|Note:)
SentenceMarkers ==
    { <<"n","o"," ","c","h","a","n","g","e","s"," ","n","e","e","d","e","d">>,
      <<"p","r","o","n","u","n","c","i","a","t","i","o","n",":">>,
      <<"g","r","a","m","m","a","r",":">>,
      <<"n","o","t","e",":">> }

\* End position of a match of  \s*\([^)]*(?:markers)[^)]*\)  starting at i,
\* 0 when the regex does not match at i.
ParenMatchEnd(s, i) ==
    LET open  == FirstNotIn(s, Whitespace, i)
        close == FirstIn(s, {")"}, open + 1)
    IN  IF open <= Len(s) /\ s[open] = "(" /\ close <= Len(s)
           /\ \E m \in ParenMarkers : Contains(Lower(SubSeq(s, open + 1, close - 1)), m)
        THEN close
        ELSE 0

\* End position of a match of  \s*(markers)[^.]*\.?  starting at i, 0 when
\* the regex does not match at i; low is s in lower case.
SentenceMatchEnd(s, low, i) ==
    LET start == FirstNotIn(s, Whitespace, i)
    IN  IF \E m \in SentenceMarkers : OccursAt(low, m, start)
        THEN LET m   == CHOOSE k \in SentenceMarkers : OccursAt(low, k, start)
                 dot == FirstIn(s, {"."}, start + Len(m))
             IN  IF dot <= Len(s) THEN dot ELSE Len(s)
        ELSE 0

\* re.sub(parenthetical regex, '', s), the scan being at position i: the
\* leftmost match is cut out and the scan goes on behind it
RECURSIVE RemoveParentheticalsFrom(_, _)
RemoveParentheticalsFrom(s, i) ==
    IF i > Len(s) THEN s
    ELSE LET e == ParenMatchEnd(s, i)
         IN  IF e > 0
             THEN SubSeq(s, 1, i - 1) \o RemoveParentheticalsFrom(From(s, e + 1), 1)
             ELSE RemoveParentheticalsFrom(s, i + 1)

RemoveParentheticals(s) == RemoveParentheticalsFrom(s, 1)

\* re.sub(explanatory sentence regex, '', s), the scan being at position i
RECURSIVE RemoveCommentaryFrom(_, _, _)
RemoveCommentaryFrom(s, low, i) ==
    IF i > Len(s) THEN s
    ELSE LET e == SentenceMatchEnd(s, low, i)
         IN  IF e > 0
             THEN SubSeq(s, 1, i - 1) \o RemoveCommentaryFrom(From(s, e + 1), From(low, e + 1), 1)
             ELSE RemoveCommentaryFrom(s, low, i + 1)

RemoveCommentary(s) == RemoveCommentaryFrom(s, Lower(s), 1)

\* Lines 118-128: the cleanup of a non-empty stripped response.
CleanResponse(improved) ==
    JoinSpace(Split(RemoveCommentary(RemoveParentheticals(Strip(improved, Quotes)))))

\* Line 131:  improved_text and 0.3 <= len(improved_text) <= len(text) * 2
\* (0.3 <= n is written 3 <= 10 * n)
LengthValid(text, improved) ==
    /\ improved # <<>>
    /\ 3 <= 10 * Len(improved)
    /\ Len(improved) <= Len(text) * 2

\* ------------------------------------------------------------------------
\* The deterministic corrections of nerd_dictation_process (lines 584-616).
\* The texts of this model hold no key of TEXT_REPLACE_REGEX,
\* CLOSING_PUNCTUATION, OPENING_PUNCTUATION and CODE_PATTERNS, whose loops
\* (lines 585-597) therefore leave them as they are; what acts on them is
\* the word loop: split(" "), WORD_REPLACE, WORD_REPLACE_REGEX, the removal
\* of empty words and the join.

\* Lines 602-612, with the entries of WORD_REPLACE under "Grammar basics"
\* (lines 255-257) and the regex ^i'(.*) (line 490)
ReplaceWord(w) ==
    CASE w = <<"i">> -> <<"I">>
      [] w \in {<<"u","m">>, <<"u","h">>} -> <<>>
      [] Len(w) >= 2 /\ w[1] = "i" /\ w[2] = "'" -> <<"I">> \o Tail(w)
      [] OTHER -> w

TechnicalCorrections(text) ==
    LET words    == SplitOnSpace(text)
        replaced == [i \in 1..Len(words) |-> ReplaceWord(words[i])]
    IN  JoinSpace(SelectSeq(replaced, LAMBDA w : w # <<>>))

\* ------------------------------------------------------------------------
\* The oracle (requests.post to Ollama, lines 108-113) as seen by the caller

NoReply == [kind |-> "none", text |-> <<>>]

\* requests.post raises: connection refused, timeout
TransportError == [kind |-> "error", text |-> <<>>]
\* response.status_code != 200
StatusError == [kind |-> "status", text |-> <<>>]
\* status 200, but response.json() has no usable "response" entry
NoResponseField == [kind |-> "nofield", text |-> <<>>]
\* status 200 and result["response"] = text
Response(text) == [kind |-> "text", text |-> text]

\* ------------------------------------------------------------------------
\* The transcripts the host submits and the answers the oracle gives

Empty == <<>>
Blank == <<" "," ">>
\* 2 words, 8 characters
ThisAre == <<"t","h","i","s"," ","a","r","e">>
\* 4 words, 14 characters
HereIsATest == <<"h","e","r","e"," ","i","s"," ","a"," ","t","e","s","t">>
\* 2 words, 22 characters
TwoLongWords == <<"i","m","p","l","e","m","e","n","t","a","t","i","o","n"," ","d","e","t","a","i","l","s">>
\* 4 words, 15 characters
ThisAreATest == <<"t","h","i","s"," ","a","r","e"," ","a"," ","t","e","s","t">>
ThatWasATest == <<"t","h","a","t"," ","w","a","s"," ","a"," ","t","e","s","t">>
\* the recognizer re-emitting a grown candidate: 16 and 20 characters
ThisAreATestDot == ThisAreATest \o <<".">>
ThisAreATestAlso == ThisAreATest \o <<" ","a","l","s","o">>
\* 4 words, 18 characters, and 5 words, 19 characters
RunTheTestSuite == <<"r","u","n"," ","t","h","e"," ","t","e","s","t"," ","s","u","i","t","e">>
LetMeCheckItNow == <<"l","e","t"," ","m","e"," ","c","h","e","c","k"," ","i","t"," ","n","o","w">>

\* Spec: transcripts of every kind
Inputs ==
    { Empty, Blank, ThisAre, HereIsATest, TwoLongWords,
      ThisAreATest, ThisAreATestDot, ThisAreATestAlso, ThatWasATest }

\* SpecSeq: a transcript growing by words, and an unrelated sentence
Updates == {ThisAre, ThisAreATest, ThisAreATestAlso, ThatWasATest}

\* SpecCache: utterances none of which extends another
Utterances == { ThisAreATest, ThatWasATest, RunTheTestSuite, LetMeCheckItNow }

\* the text with its first letter in upper case
Capitalize(text) == IF text = <<>> THEN <<>> ELSE <<UpperChar(text[1])>> \o Tail(text)

\* n filler characters
Filler(n) == [i \in 1..n |-> "x"]

\* a correction, quoted, with a parenthetical remark and a line end
QuotedCorrection(text) ==
    <<"\"">> \o Capitalize(text) \o <<" ","(","n","o"," ","c","h","a","n","g","e","s"," ","n","e","e","d","e","d",")","\"","\n">>

\* a runaway generation, more than twice the input
Runaway(text) == text \o <<" ">> \o text \o <<" ">> \o text

\* nothing but a remark
RemarkOnly == <<"N","o"," ","c","h","a","n","g","e","s"," ","n","e","e","d","e","d",".">>

\* nothing but sentence punctuation
OnlyPunctuation == <<".", ".", ".", ".", ".">>

\* a fifth of the input, and the input and a half
FifthOf(text) == SubSeq(Capitalize(text), 1, Len(text) \div 5)
HalfMore(text) == Capitalize(text) \o <<" ">> \o Filler(Len(text) \div 2 - 1)

\* The response texts of the oracle for a given input.
ResponseTexts(text) ==
    { text, text \o <<".">>, QuotedCorrection(text), <<>>, RemarkOnly,
      Runaway(text), FifthOf(text), HalfMore(text), OnlyPunctuation }

\* Spec: every outcome of the request
OracleReplies(text) ==
    {TransportError, StatusError, NoResponseField} \cup {Response(r) : r \in ResponseTexts(text)}

\* SpecCache: the outcomes that store, one for each store of the code
StoringReplies(text) ==
    {TransportError, StatusError, Response(QuotedCorrection(text)), Response(Runaway(text))}

\* CleanResponse and TechnicalCorrections on the texts of the model,
\* computed once
CleanResponseTable ==
    [body \in {Strip(r, Whitespace) : r \in UNION {ResponseTexts(text) : text \in Inputs \cup Utterances}} |->
        CleanResponse(body)]

TechnicalCorrectionsTable ==
    [text \in Inputs \cup Utterances \cup {CleanResponseTable[b] : b \in DOMAIN CleanResponseTable} |->
        TechnicalCorrections(text)]

\* time between two calls: none on the clock, less than the debounce
\* delay, the debounce delay
Gaps == {0, 1, LLM_DEBOUNCE_DELAY}

\* ------------------------------------------------------------------------
\* Program state: the module globals of nerd-dictation.py

VARIABLES
    _llm_cache,                 \* dict, as the sequence of its items in insertion order
    _last_processed_text,       \* last input that went through the LLM stage
    _last_llm_call_time,        \* clock reading of the last call that passed the debounce gate
    _last_llm_processed_text,   \* last accepted oracle output
    now,                        \* time.time() as read by the most recent call
    call,                       \* what the most recent nerd_dictation_process call did
    run,                        \* the current run of calls with one input: its length, its LLM-stage entries, its oracle invocations
    oracleTimes,                \* clock readings of the calls that invoked the oracle, in order
    stored,                     \* keys the oracle path stored in the cache, in the order of the stores
    lastHit,                    \* key of the latest cache hit, <<>> when none
    failedKeys,                 \* keys whose cache entry was stored by a failed request
    asked,                      \* inputs of the calls that invoked the oracle, in order
    threads                     \* SpecThreads: each thread's position in its call and its locals

vars == <<_llm_cache, _last_processed_text, _last_llm_call_time,
          _last_llm_processed_text, now, call, run, oracleTimes, stored, lastHit,
          failedKeys, asked, threads>>

\* ------------------------------------------------------------------------
\* Progressive-extension detector (lines 35-52)

\* should_process_with_llm skipping a text only when it is short in words
\* and in characters
should_process_with_llm_ShortNeedsBoth(text) ==
    IF Len(Split(text)) < LLM_MIN_WORDS /\ Len(text) < MIN_TEXT_LENGTH_FOR_LLM
    THEN FALSE
    ELSE IF /\ _last_llm_processed_text # <<>>
            /\ StartsWith(text, RStrip(_last_llm_processed_text, SentencePunct))
    THEN FALSE
    ELSE IF /\ _last_llm_processed_text # <<>>
            /\ StartsWith(_last_llm_processed_text, RStrip(text, SentencePunct))
    THEN FALSE
    ELSE TRUE

\* should_process_with_llm comparing with the last accepted output as it is,
\* its trailing punctuation included
should_process_with_llm_NoRStripLast(text) ==
    IF Len(Split(text)) < LLM_MIN_WORDS \/ Len(text) < MIN_TEXT_LENGTH_FOR_LLM
    THEN FALSE
    ELSE IF /\ _last_llm_processed_text # <<>>
            /\ StartsWith(text, _last_llm_processed_text)
    THEN FALSE
    ELSE IF /\ _last_llm_processed_text # <<>>
            /\ StartsWith(_last_llm_processed_text, RStrip(text, SentencePunct))
    THEN FALSE
    ELSE TRUE

\* should_process_with_llm comparing with the candidate as it is, its
\* trailing punctuation included
should_process_with_llm_NoRStripCandidate(text) ==
    IF Len(Split(text)) < LLM_MIN_WORDS \/ Len(text) < MIN_TEXT_LENGTH_FOR_LLM
    THEN FALSE
    ELSE IF /\ _last_llm_processed_text # <<>>
            /\ StartsWith(text, RStrip(_last_llm_processed_text, SentencePunct))
    THEN FALSE
    ELSE IF /\ _last_llm_processed_text # <<>>
            /\ StartsWith(_last_llm_processed_text, text)
    THEN FALSE
    ELSE TRUE

should_process_with_llm(text) ==
    IF Len(Split(text)) < LLM_MIN_WORDS \/ Len(text) < MIN_TEXT_LENGTH_FOR_LLM
    THEN FALSE
    ELSE IF /\ _last_llm_processed_text # <<>>
            /\ StartsWith(text, RStrip(_last_llm_processed_text, SentencePunct))
    THEN FALSE
    ELSE IF /\ _last_llm_processed_text # <<>>
            /\ StartsWith(_last_llm_processed_text, RStrip(text, SentencePunct))
    THEN FALSE
    ELSE TRUE

\* ------------------------------------------------------------------------
\* The cache: a Python dict keeps its items in insertion order

CacheKeys(cache) == [i \in 1..Len(cache) |-> cache[i].key]

\* text in _llm_cache
CacheHas(cache, text) == \E i \in 1..Len(cache) : cache[i].key = text

\* _llm_cache[text]
CacheGet(cache, text) == cache[CHOOSE i \in 1..Len(cache) : cache[i].key = text].value

\* _llm_cache[text] = value: an existing key keeps its place
DictSet(cache, text, value) ==
    IF CacheHas(cache, text)
    THEN [i \in 1..Len(cache) |->
            IF cache[i].key = text THEN [key |-> text, value |-> value] ELSE cache[i]]
    ELSE Append(cache, [key |-> text, value |-> value])

\* next(iter(_llm_cache)) raises StopIteration on an empty dict
StoreRaises(cache) == Len(cache) >= LLM_CACHE_MAX_SIZE /\ cache = <<>>

\* CacheStore without the eviction
CacheStore_NoEvict(cache, text, value) == DictSet(cache, text, value)

\* CacheStore evicting the newest item
CacheStore_EvictNewest(cache, text, value) ==
    IF Len(cache) >= LLM_CACHE_MAX_SIZE
    THEN DictSet(SubSeq(cache, 1, Len(cache) - 1), text, value)
    ELSE DictSet(cache, text, value)

\* Lines 133-136 (and 149-151, 158-160, 165-167): evict the oldest item when
\* the cache is full, then store.
CacheStore(cache, text, value) ==
    IF Len(cache) >= LLM_CACHE_MAX_SIZE
    THEN DictSet(Tail(cache), text, value)
    ELSE DictSet(cache, text, value)

\* ------------------------------------------------------------------------
\* improve_text_with_llm (lines 54-168).  The result of a call is a record:
\* the returned text, the globals as the call leaves them, whether the
\* call raised instead of returning.

LlmResult(ret, cache, callTime, llmText, raised) ==
    [ret |-> ret, cache |-> cache, callTime |-> callTime, llmText |-> llmText, raised |-> raised]

\* OnException letting the exception through
OnException_Reraises(text, callTime) ==
    LlmResult(text, _llm_cache, callTime, _last_llm_processed_text, TRUE)

\* OnException returning the text without storing it
OnException_NoStore(text, callTime) ==
    LlmResult(text, _llm_cache, callTime, _last_llm_processed_text, FALSE)

\* Lines 162-168: except Exception

OnException(text, callTime) ==
    IF StoreRaises(_llm_cache)
    THEN LlmResult(text, _llm_cache, callTime, _last_llm_processed_text, TRUE)
    ELSE LlmResult(text, CacheStore(_llm_cache, text, text), callTime,
                   _last_llm_processed_text, FALSE)

\* Lines 155-161: status code other than 200
OnStatusError(text, callTime) ==
    IF StoreRaises(_llm_cache)
    THEN OnException(text, callTime)
    ELSE LlmResult(text, CacheStore(_llm_cache, text, text), callTime,
                   _last_llm_processed_text, FALSE)

\* OnResponse accepting the sanitized response without the validation
OnResponse_NoValidation(text, body, callTime) ==
    LET stripped == Strip(body, Whitespace)
        improved == CleanResponseTable[stripped]
    IN  IF stripped = <<>>
        THEN LlmResult(text, _llm_cache, callTime, _last_llm_processed_text, FALSE)
        ELSE LlmResult(improved, CacheStore(_llm_cache, text, improved), callTime,
                       improved, FALSE)

\* Lines 112-154: status code 200 with a response text
OnResponse(text, body, callTime) ==
    LET stripped == Strip(body, Whitespace)
        improved == CleanResponseTable[stripped]
    IN  IF stripped = <<>>
        THEN LlmResult(text, _llm_cache, callTime, _last_llm_processed_text, FALSE)
        ELSE IF StoreRaises(_llm_cache)
        THEN OnException(text, callTime)
        ELSE IF LengthValid(text, improved)
        THEN LlmResult(improved, CacheStore(_llm_cache, text, improved), callTime,
                       improved, FALSE)
        ELSE LlmResult(text, CacheStore(_llm_cache, text, text), callTime,
                       _last_llm_processed_text, FALSE)

\* Lines 107-168: the request and the handling of its outcome
CallOracle(text, reply, callTime) ==
    CASE reply.kind = "error"   -> OnException(text, callTime)
      [] reply.kind = "nofield" -> OnException(text, callTime)
      [] reply.kind = "status"  -> OnStatusError(text, callTime)
      [] reply.kind = "text"    -> OnResponse(text, reply.text, callTime)

\* DebounceAllows asking for more than the delay
DebounceAllows_Strict(t) == t - _last_llm_call_time > LLM_DEBOUNCE_DELAY

\* DebounceAllows without the gate
DebounceAllows_Always(t) == TRUE

\* Lines 65-68: the debounce gate, current_time = t
DebounceAllows(t) == ~(t - _last_llm_call_time < LLM_DEBOUNCE_DELAY)

\* GateOutcome looking in the cache before the debounce gate
GateOutcome_CacheFirst(text, t) ==
    IF ~LLM_ENABLED THEN "disabled"
    ELSE IF ~should_process_with_llm(text) THEN "skipped"
    ELSE IF CacheHas(_llm_cache, text) THEN "cachehit"
    ELSE IF ~DebounceAllows(t) THEN "debounced"
    ELSE "oracle"

\* Lines 58-73: which way a call of improve_text_with_llm at time t goes
GateOutcome(text, t) ==
    IF ~LLM_ENABLED THEN "disabled"
    ELSE IF ~should_process_with_llm(text) THEN "skipped"
    ELSE IF ~DebounceAllows(t) THEN "debounced"
    ELSE IF CacheHas(_llm_cache, text) THEN "cachehit"
    ELSE "oracle"

\* improve_text_with_llm reading the clock before the detector
improve_text_with_llm_StampsFirst(text, reply, t) ==
    LET gate == GateOutcome(text, t)
    IN  CASE gate = "disabled" ->
               LlmResult(text, _llm_cache, _last_llm_call_time, _last_llm_processed_text, FALSE)
          [] gate \in {"skipped", "debounced"} ->
               LlmResult(text, _llm_cache,
                         IF DebounceAllows(t) THEN t ELSE _last_llm_call_time,
                         _last_llm_processed_text, FALSE)
          [] gate = "cachehit" ->
               LlmResult(CacheGet(_llm_cache, text), _llm_cache, t, _last_llm_processed_text, FALSE)
          [] gate = "oracle" -> CallOracle(text, reply, t)

\* improve_text_with_llm storing a hit again, as the newest item
improve_text_with_llm_HitRefreshes(text, reply, t) ==
    LET gate == GateOutcome(text, t)
    IN  CASE gate \in {"disabled", "skipped", "debounced"} ->
               LlmResult(text, _llm_cache, _last_llm_call_time, _last_llm_processed_text, FALSE)
          [] gate = "cachehit" ->
               LlmResult(CacheGet(_llm_cache, text),
                         Append(SelectSeq(_llm_cache, LAMBDA item : item.key # text),
                                [key |-> text, value |-> CacheGet(_llm_cache, text)]),
                         t, _last_llm_processed_text, FALSE)
          [] gate = "oracle" -> CallOracle(text, reply, t)

improve_text_with_llm(text, reply, t) ==
    LET gate == GateOutcome(text, t)
    IN  CASE gate \in {"disabled", "skipped", "debounced"} ->
               LlmResult(text, _llm_cache, _last_llm_call_time, _last_llm_processed_text, FALSE)
          [] gate = "cachehit" ->
               LlmResult(CacheGet(_llm_cache, text), _llm_cache, t, _last_llm_processed_text, FALSE)
          [] gate = "oracle" -> CallOracle(text, reply, t)

\* ------------------------------------------------------------------------
\* nerd_dictation_process (lines 565-618)

\* EntersLlmStage without the comparison with the last input
EntersLlmStage_NoRepeatCheck(text) == Strip(text, Whitespace) # <<>>

\* Line 577: whether the call enters the LLM stage
EntersLlmStage(text) == text # _last_processed_text /\ Strip(text, Whitespace) # <<>>

\* which way a call at time t goes
CallPath(text, t) ==
    IF EntersLlmStage(text) THEN GateOutcome(text, t)
    ELSE IF text = _last_processed_text THEN "repeat"
    ELSE "blank"

\* ------------------------------------------------------------------------
\* Threads (SpecThreads).  The code takes no lock: between any two accesses
\* of a module global another thread may run.

Threads == 1..NumThreads

\* a thread that has not called yet: its position, its locals, and for the
\* properties: order, how many calls had begun before its own; superseded,
\* whether a later call for another text returned while it was waiting for
\* its answer; had, whether its key was in the cache at its size check
IdleThread ==
    [pc |-> "idle", text |-> <<>>, t |-> 0, value |-> <<>>, key |-> <<>>,
     handler |-> FALSE, accept |-> FALSE, passed |-> FALSE, asked |-> FALSE,
     ret |-> <<>>, result |-> <<>>, raised |-> FALSE,
     order |-> 0, superseded |-> FALSE, had |-> FALSE]

\* texts the threads dictate
ThreadTexts == {ThisAreATest, ThatWasATest, RunTheTestSuite}

\* outcomes of a thread's request
ThreadReplies(text) == StoringReplies(text) \cup {Response(<<>>)}

\* utterances processed before the threads start, oldest first
Earlier == <<RunTheTestSuite, LetMeCheckItNow, ThisAreATestDot>>

\* ------------------------------------------------------------------------
\* The state machine

InitCall ==
    [n |-> 0, input |-> <<>>, path |-> "init", reply |-> NoReply, time |-> 0,
     llmRet |-> <<>>, result |-> <<>>, raised |-> FALSE]

Init ==
    /\ _llm_cache = <<>>
    /\ _last_processed_text = <<>>
    /\ _last_llm_call_time = 0
    /\ _last_llm_processed_text = <<>>
    /\ now = LLM_DEBOUNCE_DELAY
    /\ call = InitCall
    /\ run = [len |-> 0, entered |-> 0, oracle |-> 0]
    /\ oracleTimes = <<>>
    /\ stored = <<>>
    /\ lastHit = <<>>
    /\ failedKeys = {}
    /\ asked = <<>>
    /\ threads = [th \in Threads |-> IdleThread]

\* One call nerd_dictation_process(text) whose clock reading is t and whose
\* request, if it makes one, is answered by reply.
nerd_dictation_process(text, t, reply) ==
    \E path \in {CallPath(text, t)}, entered \in {EntersLlmStage(text)} :
    \E r \in {IF entered
              THEN improve_text_with_llm(text, reply, t)
              ELSE LlmResult(text, _llm_cache, _last_llm_call_time,
                             _last_llm_processed_text, FALSE)} :
    LET sameRun == call.n > 0 /\ call.input = text
    IN  /\ _llm_cache' = r.cache
        /\ _last_llm_call_time' = r.callTime
        /\ _last_llm_processed_text' = r.llmText
        /\ _last_processed_text' = IF entered /\ ~r.raised THEN text ELSE _last_processed_text
        /\ now' = t
        /\ call' = [n |-> call.n + 1, input |-> text, path |-> path, reply |-> reply,
                    time |-> t, llmRet |-> r.ret,
                    result |-> IF r.raised THEN <<>> ELSE TechnicalCorrectionsTable[r.ret],
                    raised |-> r.raised]
        /\ run' = [len     |-> (IF sameRun THEN run.len ELSE 0) + 1,
                   entered |-> (IF sameRun THEN run.entered ELSE 0) + (IF entered THEN 1 ELSE 0),
                   oracle  |-> (IF sameRun THEN run.oracle ELSE 0) + (IF path = "oracle" THEN 1 ELSE 0)]
        /\ oracleTimes' = IF path = "oracle" THEN Append(oracleTimes, t) ELSE oracleTimes
        /\ stored' = IF path = "oracle" /\ CacheHas(r.cache, text)
                     THEN Append(stored, text)
                     ELSE stored
        /\ lastHit' = IF path = "cachehit" THEN text ELSE lastHit
        /\ failedKeys' =
              LET kept == IF path = "oracle" THEN failedKeys \ {text} ELSE failedKeys
                  new  == IF path = "oracle" /\ reply.kind \in {"error", "status"}
                          THEN {text} ELSE {}
              IN  {k \in kept \cup new : CacheHas(r.cache, k)}
        /\ asked' = IF path = "oracle" THEN Append(asked, text) ELSE asked
        /\ UNCHANGED threads

\* The host calls nerd_dictation_process with a transcript of Spec.
Process ==
    /\ call.n < MaxCalls
    /\ \E text \in Inputs, d \in Gaps :
         \E reply \in (IF CallPath(text, now + d) = "oracle"
                       THEN OracleReplies(text) ELSE {NoReply}) :
            nerd_dictation_process(text, now + d, reply)

\* The host calls nerd_dictation_process with an utterance of SpecCache.
ProcessUtterance ==
    /\ call.n < MaxCacheCalls
    /\ \E text \in Utterances, d \in Gaps \ {0} :
         \E reply \in (IF CallPath(text, now + d) = "oracle"
                       THEN StoringReplies(text) ELSE {NoReply}) :
            nerd_dictation_process(text, now + d, reply)

Next == Process

Spec == Init /\ [][Next]_vars

\* The host calls nerd_dictation_process with an update of SpecSeq.
ProcessUpdate ==
    /\ call.n < MaxSeqCalls
    /\ \E text \in Updates, d \in Gaps :
         \E reply \in (IF CallPath(text, now + d) = "oracle"
                       THEN OracleReplies(text) ELSE {NoReply}) :
            nerd_dictation_process(text, now + d, reply)

NextCache == ProcessUtterance

SpecCache == Init /\ [][NextCache]_vars

NextSeq == ProcessUpdate

SpecSeq == Init /\ [][NextSeq]_vars

\* ------------------------------------------------------------------------
\* The steps of one thread's nerd_dictation_process call

\* the sequential bookkeeping, which the threads leave alone
history == <<call, run, oracleTimes, stored, lastHit, failedKeys, asked>>

\* An exception raised by a store: inside the try block it is caught by
\* line 162 and the handler stores the fallback; inside the handler it
\* leaves improve_text_with_llm and nerd_dictation_process.
StoreFails(self) ==
    IF self.handler
    THEN [self EXCEPT !.pc = "done", !.raised = TRUE]
    ELSE [self EXCEPT !.pc = "check", !.handler = TRUE, !.accept = FALSE, !.value = self.text]

\* Line 577: the call and its comparison with the last input
ThreadCall(th) ==
    LET self == threads[th]
    IN
        /\ self.pc = "idle"
        /\ \E text \in ThreadTexts :
             threads' = [threads EXCEPT ![th] =
                LET begun == Cardinality({u \in Threads : threads[u].pc # "idle"})
                IN  IF EntersLlmStage(text)
                    THEN [self EXCEPT !.pc = "detect", !.text = text, !.order = begun]
                    ELSE [self EXCEPT !.pc = "done", !.text = text, !.ret = text,
                                      !.order = begun,
                                      !.result = TechnicalCorrectionsTable[text]]]
        /\ UNCHANGED <<_llm_cache, _last_processed_text, _last_llm_call_time,
                       _last_llm_processed_text, now, history>>

\* Lines 58-63: the detector
ThreadDetect(th) ==
    LET self == threads[th]
    IN
        /\ self.pc = "detect"
        /\ threads' = [threads EXCEPT ![th] =
                IF LLM_ENABLED /\ should_process_with_llm(self.text)
                THEN [self EXCEPT !.pc = "debounce"]
                ELSE [self EXCEPT !.pc = "mark", !.ret = self.text]]
        /\ UNCHANGED <<_llm_cache, _last_processed_text, _last_llm_call_time,
                       _last_llm_processed_text, now, history>>

\* Lines 66-68: the clock is read and compared with _last_llm_call_time
ThreadDebounceRead(th) ==
    LET self == threads[th]
    IN
        /\ self.pc = "debounce"
        /\ \E t \in {now, now + 1, now + LLM_DEBOUNCE_DELAY} :
             /\ now' = t
             /\ threads' = [threads EXCEPT ![th] =
                    IF DebounceAllows(t)
                    THEN [self EXCEPT !.pc = "stamp", !.t = t, !.passed = TRUE]
                    ELSE [self EXCEPT !.pc = "mark", !.t = t, !.ret = self.text]]
        /\ UNCHANGED <<_llm_cache, _last_processed_text, _last_llm_call_time,
                       _last_llm_processed_text, history>>

\* Line 69: _last_llm_call_time = current_time
ThreadDebounceWrite(th) ==
    LET self == threads[th]
    IN
        /\ self.pc = "stamp"
        /\ _last_llm_call_time' = self.t
        /\ threads' = [threads EXCEPT ![th] = [self EXCEPT !.pc = "lookup"]]
        /\ UNCHANGED <<_llm_cache, _last_processed_text, _last_llm_processed_text,
                       now, history>>

\* Line 72: text in _llm_cache
ThreadLookup(th) ==
    LET self == threads[th]
    IN
        /\ self.pc = "lookup"
        /\ threads' = [threads EXCEPT ![th] =
                [self EXCEPT !.pc = IF CacheHas(_llm_cache, self.text) THEN "get" ELSE "request"]]
        /\ UNCHANGED <<_llm_cache, _last_processed_text, _last_llm_call_time,
                       _last_llm_processed_text, now, history>>

\* Line 73: return _llm_cache[text]; a KeyError here is outside the try block
ThreadCacheGet(th) ==
    LET self == threads[th]
    IN
        /\ self.pc = "get"
        /\ threads' = [threads EXCEPT ![th] =
                IF CacheHas(_llm_cache, self.text)
                THEN [self EXCEPT !.pc = "mark", !.ret = CacheGet(_llm_cache, self.text)]
                ELSE [self EXCEPT !.pc = "done", !.raised = TRUE]]
        /\ UNCHANGED <<_llm_cache, _last_processed_text, _last_llm_call_time,
                       _last_llm_processed_text, now, history>>

\* Lines 108-131, 147, 156, 163: the request, and what its outcome has the
\* call store
ThreadRequest(th) ==
    LET self == threads[th]
    IN
        /\ self.pc = "request"
        /\ \E reply \in ThreadReplies(self.text) :
             threads' = [threads EXCEPT ![th] =
                LET stripped == Strip(reply.text, Whitespace)
                    improved == CleanResponseTable[stripped]
                IN  CASE reply.kind \in {"error", "nofield"} ->
                           [self EXCEPT !.pc = "check", !.asked = TRUE, !.handler = TRUE, !.value = self.text]
                      [] reply.kind = "status" ->
                           [self EXCEPT !.pc = "check", !.asked = TRUE, !.value = self.text]
                      [] reply.kind = "text" /\ stripped = <<>> ->
                           [self EXCEPT !.pc = "mark", !.asked = TRUE, !.ret = self.text]
                      [] reply.kind = "text" /\ stripped # <<>> /\ LengthValid(self.text, improved) ->
                           [self EXCEPT !.pc = "check", !.asked = TRUE, !.accept = TRUE, !.value = improved]
                      [] OTHER ->
                           [self EXCEPT !.pc = "check", !.asked = TRUE, !.value = self.text]]
        /\ UNCHANGED <<_llm_cache, _last_processed_text, _last_llm_call_time,
                       _last_llm_processed_text, now, history>>

\* Lines 133, 149, 158, 165: len(_llm_cache) >= LLM_CACHE_MAX_SIZE
ThreadStoreCheck(th) ==
    LET self == threads[th]
    IN
        /\ self.pc = "check"
        /\ threads' = [threads EXCEPT ![th] =
                [self EXCEPT !.pc = IF Len(_llm_cache) >= LLM_CACHE_MAX_SIZE
                                    THEN "first" ELSE "insert",
                             !.had = CacheHas(_llm_cache, self.text)]]
        /\ UNCHANGED <<_llm_cache, _last_processed_text, _last_llm_call_time,
                       _last_llm_processed_text, now, history>>

\* next(iter(_llm_cache)): the oldest key, StopIteration on an empty dict
ThreadStoreFirst(th) ==
    LET self == threads[th]
    IN
        /\ self.pc = "first"
        /\ threads' = [threads EXCEPT ![th] =
                IF _llm_cache = <<>>
                THEN StoreFails(self)
                ELSE [self EXCEPT !.pc = "pop", !.key = _llm_cache[1].key]]
        /\ UNCHANGED <<_llm_cache, _last_processed_text, _last_llm_call_time,
                       _last_llm_processed_text, now, history>>

\* _llm_cache.pop(key): KeyError when the key is no longer in the dict
ThreadStorePop(th) ==
    LET self == threads[th]
    IN
        /\ self.pc = "pop"
        /\ IF CacheHas(_llm_cache, self.key)
           THEN /\ _llm_cache' = SelectSeq(_llm_cache, LAMBDA item : item.key # self.key)
                /\ threads' = [threads EXCEPT ![th] = [self EXCEPT !.pc = "insert"]]
           ELSE /\ _llm_cache' = _llm_cache
                /\ threads' = [threads EXCEPT ![th] = StoreFails(self)]
        /\ UNCHANGED <<_last_processed_text, _last_llm_call_time,
                       _last_llm_processed_text, now, history>>

\* Lines 136, 151, 160, 167: _llm_cache[text] = value
ThreadStoreInsert(th) ==
    LET self == threads[th]
    IN
        /\ self.pc = "insert"
        /\ _llm_cache' = DictSet(_llm_cache, self.text, self.value)
        /\ threads' = [threads EXCEPT ![th] =
                IF self.accept
                THEN [self EXCEPT !.pc = "accept"]
                ELSE [self EXCEPT !.pc = "mark", !.ret = self.text]]
        /\ UNCHANGED <<_last_processed_text, _last_llm_call_time,
                       _last_llm_processed_text, now, history>>

\* Lines 143-144: _last_llm_processed_text = improved_text; return it
ThreadAccept(th) ==
    LET self == threads[th]
    IN
        /\ self.pc = "accept"
        /\ _last_llm_processed_text' = self.value
        /\ threads' = [threads EXCEPT ![th] = [self EXCEPT !.pc = "mark", !.ret = self.value]]
        /\ UNCHANGED <<_llm_cache, _last_processed_text, _last_llm_call_time,
                       now, history>>

\* Lines 579-618: _last_processed_text = original_text, then the
\* deterministic corrections
ThreadMark(th) ==
    LET self == threads[th]
    IN
        /\ self.pc = "mark"
        /\ _last_processed_text' = self.text
        /\ threads' = [u \in Threads |->
                IF u = th
                THEN [self EXCEPT !.pc = "done", !.result = TechnicalCorrectionsTable[self.ret]]
                ELSE IF /\ threads[u].pc = "request"
                        /\ threads[u].text # self.text
                        /\ threads[u].order < self.order
                THEN [threads[u] EXCEPT !.superseded = TRUE]
                ELSE threads[u]]
        /\ UNCHANGED <<_llm_cache, _last_llm_call_time, _last_llm_processed_text,
                       now, history>>

\* The globals as n earlier calls, DELAY apart and each with a failed
\* request, have left them; the threads start within a tenth of a second
\* of the end of the debounce delay.
InitThreads ==
    \E n \in 0..LLM_CACHE_MAX_SIZE :
        /\ _llm_cache = [i \in 1..n |-> [key |-> Earlier[i], value |-> Earlier[i]]]
        /\ _last_processed_text = IF n = 0 THEN <<>> ELSE Earlier[n]
        /\ _last_llm_call_time = n * LLM_DEBOUNCE_DELAY
        /\ _last_llm_processed_text = <<>>
        /\ now = (n + 1) * LLM_DEBOUNCE_DELAY - 1
        /\ call = InitCall
        /\ run = [len |-> 0, entered |-> 0, oracle |-> 0]
        /\ oracleTimes = <<>>
        /\ stored = <<>>
        /\ lastHit = <<>>
        /\ failedKeys = {}
        /\ asked = <<>>
        /\ threads = [th \in Threads |-> IdleThread]

NextThreads ==
    \E th \in Threads :
        \/ ThreadCall(th)
        \/ ThreadDetect(th)
        \/ ThreadDebounceRead(th)
        \/ ThreadDebounceWrite(th)
        \/ ThreadLookup(th)
        \/ ThreadCacheGet(th)
        \/ ThreadRequest(th)
        \/ ThreadStoreCheck(th)
        \/ ThreadStoreFirst(th)
        \/ ThreadStorePop(th)
        \/ ThreadStoreInsert(th)
        \/ ThreadAccept(th)
        \/ ThreadMark(th)

SpecThreads == InitThreads /\ [][NextThreads]_vars

\* ------------------------------------------------------------------------
\* Properties

\* the oracle failed the last call: transport exception or timeout, status
\* other than 200, body without a usable "response", empty response,
\* response failing the validation
OracleFailed ==
    \/ call.reply.kind \in {"error", "status", "nofield"}
    \/ /\ call.reply.kind = "text"
       /\ \/ Strip(call.reply.text, Whitespace) = <<>>
          \/ call.reply.text \in {RemarkOnly, Runaway(call.input)}

\* C1: a call of nerd_dictation_process returns a string and never raises,
\* whatever the oracle does; when the oracle fails, improve_text_with_llm
\* returns the input text unchanged.
C1_NeverRaises ==
    call.n > 0 =>
        /\ ~call.raised
        /\ call.result \in Seq(STRING)
        /\ (call.path = "oracle" /\ OracleFailed => call.llmRet = call.input)

C1_Witness ==
    /\ call.path = "oracle"
    /\ call.reply \in {TransportError, Response(Runaway(call.input))}
    /\ call.llmRet = call.input
    /\ ~call.raised

\* C2: two calls with the same input in immediate succession return the
\* same result, also when the first call invoked the oracle and its
\* accepted correction differs from the input.  (The first call's LLM-stage
\* result is taken no shorter than 0.3 times the input, so that the
\* statement does not rest on the length check of C10.)
C2_SameResultOnRepeat ==
    [][(/\ call.n > 0
        /\ 10 * Len(call.llmRet) >= 3 * Len(call.input)
        /\ call'.n = call.n + 1
        /\ call'.input = call.input)
          => call'.result = call.result]_vars

\* C3: consecutive calls with one input enter the LLM stage at most once and
\* invoke the oracle at most once in total.
C3_OneEntryPerRun == run.entered <= 1 /\ run.oracle <= 1

C3_Witness == run.len >= 2 /\ run.entered = 1 /\ run.oracle = 1

\* C4: a call whose input has fewer than LLM_MIN_WORDS words or fewer than
\* MIN_TEXT_LENGTH_FOR_LLM characters never invokes the oracle.
C4_ShortInputNoOracle ==
    (call.n > 0 /\ (Len(Split(call.input)) < LLM_MIN_WORDS
                    \/ Len(call.input) < MIN_TEXT_LENGTH_FOR_LLM))
        => call.path # "oracle"

C4_Witness ==
    /\ call.path = "skipped"
    /\ Len(Split(call.input)) >= LLM_MIN_WORDS
    /\ Len(call.input) < MIN_TEXT_LENGTH_FOR_LLM
    /\ _llm_cache # <<>>
    /\ call.time - _last_llm_call_time >= LLM_DEBOUNCE_DELAY

\* C5: any two oracle invocations are started by calls whose clock readings
\* at the debounce gate differ by at least LLM_DEBOUNCE_DELAY.
C5_DebounceSpacing ==
    \A i, j \in 1..Len(oracleTimes) :
        i < j => oracleTimes[j] - oracleTimes[i] >= LLM_DEBOUNCE_DELAY

C5_Witness == Len(oracleTimes) >= 2

\* C6: the cache never holds more than LLM_CACHE_MAX_SIZE entries, whatever
\* the outcomes of the oracle.
C6_CacheBound == Len(_llm_cache) <= LLM_CACHE_MAX_SIZE

C6_Witness ==
    /\ Len(stored) > LLM_CACHE_MAX_SIZE
    /\ Len(_llm_cache) = LLM_CACHE_MAX_SIZE
    /\ call.reply.kind \in {"error", "status"}

Distinct(seq) == \A i, j \in 1..Len(seq) : i # j => seq[i] # seq[j]

\* C7: the cache holds the keys stored last, in the order of their stores:
\* after maxSize + k stores of distinct keys it holds maxSize entries and the
\* k keys stored first are absent; a cache hit does not change the order.
C7_FifoEviction ==
    LET n == Len(stored)
        k == IF n > LLM_CACHE_MAX_SIZE THEN n - LLM_CACHE_MAX_SIZE ELSE 0
    IN  /\ CacheKeys(_llm_cache) = SubSeq(stored, k + 1, n)
        /\ Distinct(stored) => \A i \in 1..k : ~CacheHas(_llm_cache, stored[i])

C7_Witness ==
    /\ Len(stored) > LLM_CACHE_MAX_SIZE
    /\ Distinct(stored)
    /\ lastHit = stored[1]
    /\ ~CacheHas(_llm_cache, stored[1])
    /\ Len(_llm_cache) = LLM_CACHE_MAX_SIZE

\* C8: when the last accepted output is non-empty and the input starts with
\* it, its trailing . , ! ? stripped, the call does not invoke the oracle.
C8_ProgressiveSuppression ==
    [][(/\ call'.n = call.n + 1
        /\ _last_llm_processed_text # <<>>
        /\ StartsWith(call'.input, RStrip(_last_llm_processed_text, SentencePunct)))
          => call'.path # "oracle"]_vars

C8_Witness ==
    /\ call.path = "skipped"
    /\ _last_llm_processed_text = ThisAreATestDot
    /\ call.input = ThisAreATestAlso
    /\ call.time - _last_llm_call_time >= LLM_DEBOUNCE_DELAY

\* the three rejections of the detector for a candidate, the last accepted
\* output being that of the state
TooShort(candidate) ==
    Len(Split(candidate)) < 3 \/ Len(candidate) < 15
LooksLikeExtension(candidate) ==
    /\ _last_llm_processed_text # <<>>
    /\ StartsWith(candidate, RStrip(_last_llm_processed_text, SentencePunct))
LooksLikeTruncation(candidate) ==
    /\ _last_llm_processed_text # <<>>
    /\ StartsWith(RStrip(_last_llm_processed_text, SentencePunct),
                  RStrip(candidate, SentencePunct))

\* C9: should_process_with_llm returns false exactly when the candidate is
\* too short, or extends the stripped last accepted output, or its stripped
\* form is a prefix of the stripped last accepted output.
C9_DetectorDecision ==
    \A candidate \in Inputs \cup Utterances :
        should_process_with_llm(candidate)
            <=> ~(TooShort(candidate) \/ LooksLikeExtension(candidate)
                  \/ LooksLikeTruncation(candidate))

C9_Witness ==
    /\ call.path = "skipped"
    /\ call.input = ThisAreATestDot
    /\ _last_llm_processed_text = ThisAreATestAlso
    /\ should_process_with_llm(ThatWasATest)

\* C10: a sanitized oracle output a fifth as long as the input is rejected,
\* the input is returned and cached; one and a half times as long as the
\* input, it is accepted and returned.
C10_RelativeLengthBounds ==
    (call.path = "oracle" /\ call.reply.kind = "text"
     /\ Strip(call.reply.text, Whitespace) # <<>>) =>
        LET out == CleanResponse(Strip(call.reply.text, Whitespace))
        IN  /\ (out # <<>> /\ 5 * Len(out) = Len(call.input)) =>
                  /\ call.llmRet = call.input
                  /\ CacheGet(_llm_cache, call.input) = call.input
            /\ 2 * Len(out) = 3 * Len(call.input) => call.llmRet = out

\* C11: a call whose request fails (no connection, timeout, status other
\* than 200) returns its input from the LLM stage and stores input -> input;
\* a later call with that input, made while the entry is cached, returns the
\* input from the LLM stage and invokes no oracle.
C11_FailureMemoized ==
    /\ [](call.path = "oracle" /\ call.reply.kind \in {"error", "status"} =>
            /\ call.llmRet = call.input
            /\ CacheHas(_llm_cache, call.input)
            /\ CacheGet(_llm_cache, call.input) = call.input)
    /\ [][(call'.n = call.n + 1 /\ call'.input \in failedKeys) =>
            /\ call'.path # "oracle"
            /\ oracleTimes' = oracleTimes
            /\ call'.llmRet = call'.input
            /\ call'.result = TechnicalCorrectionsTable[call'.input]]_vars

C11_Witness ==
    /\ call.path = "cachehit"
    /\ call.input \in failedKeys
    /\ call.llmRet = call.input
    /\ Len(oracleTimes) >= 2

\* every key the oracle path stored is still in the cache
NothingEvicted == \A i \in 1..Len(stored) : CacheHas(_llm_cache, stored[i])

\* C12: as long as nothing has been evicted and the cache has room to
\* spare, the oracle is invoked at most once for any input, whatever the
\* outcome of its first invocation and whatever inputs come in between.
C12_OncePerInput ==
    (NothingEvicted /\ Len(_llm_cache) < LLM_CACHE_MAX_SIZE) => Distinct(asked)

\* the recognizer re-emitting a candidate grown by more words
ExtendedByWords(new, old) == Len(new) > Len(old) + 1 /\ StartsWith(new, old \o <<" ">>)

\* the last call invoked the oracle and its answer was accepted (line 143)
\* with a length no less than 0.3 times that of the input
Accepted ==
    /\ call.path = "oracle"
    /\ _last_llm_processed_text = call.llmRet
    /\ 10 * Len(call.llmRet) >= 3 * Len(call.input)

\* C13: when a call has invoked the oracle and its answer was accepted, the
\* next call, whose input is the previous input extended with more words,
\* does not invoke the oracle, whatever the time between the two and also
\* when the answer changed the beginning of the text.
C13_ProgressiveOnce ==
    [][(/\ Accepted
        /\ call'.n = call.n + 1
        /\ ExtendedByWords(call'.input, call.input))
          => call'.path # "oracle"]_vars

\* C14: with the threads' inputs distinct, every call that has ended has
\* returned a string; none has raised.
C14_NoThreadRaises ==
    (\A a, b \in Threads :
        (a # b /\ threads[a].pc # "idle" /\ threads[b].pc # "idle")
            => threads[a].text # threads[b].text)
    => \A th \in Threads :
          threads[th].pc = "done" =>
              ~threads[th].raised /\ threads[th].result \in Seq(STRING)

\* C15: the cache never holds more than LLM_CACHE_MAX_SIZE entries, and a
\* thread about to insert a new key finds room for it: the size check, the
\* eviction and the insertion of a commit act as one step.
C15_AtomicCommit ==
    /\ Len(_llm_cache) <= LLM_CACHE_MAX_SIZE
    /\ \A th \in Threads :
          (threads[th].pc = "insert" /\ ~CacheHas(_llm_cache, threads[th].text))
              => Len(_llm_cache) < LLM_CACHE_MAX_SIZE

\* C16: two calls that have passed the debounce gate read the clock at
\* least LLM_DEBOUNCE_DELAY apart, and so do two calls that have invoked
\* the oracle.
C16_AtomicDebounce ==
    \A a, b \in Threads :
        (a # b /\ threads[a].passed /\ threads[b].passed) =>
            \/ threads[a].t - threads[b].t >= LLM_DEBOUNCE_DELAY
            \/ threads[b].t - threads[a].t >= LLM_DEBOUNCE_DELAY

\* C17: a call that reaches the debounce gate at time t passes it, and sets
\* _last_llm_call_time to t, exactly when t - _last_llm_call_time is at
\* least LLM_DEBOUNCE_DELAY; otherwise the LLM stage returns the input,
\* invokes no oracle and leaves _last_llm_call_time, the cache and
\* _last_llm_processed_text as they were, also when the cache holds a
\* correction for the input.
C17_DebounceContract ==
    [][(/\ call'.n = call.n + 1
        /\ EntersLlmStage(call'.input)
        /\ should_process_with_llm(call'.input))
          => IF call'.time - _last_llm_call_time >= LLM_DEBOUNCE_DELAY
             THEN /\ call'.path \in {"cachehit", "oracle"}
                  /\ _last_llm_call_time' = call'.time
             ELSE /\ call'.path = "debounced"
                  /\ call'.llmRet = call'.input
                  /\ oracleTimes' = oracleTimes
                  /\ UNCHANGED <<_last_llm_call_time, _llm_cache,
                                 _last_llm_processed_text>>]_vars

C17_Witness ==
    /\ call.path = "debounced"
    /\ CacheHas(_llm_cache, call.input)
    /\ CacheGet(_llm_cache, call.input) # call.input
    /\ call.llmRet = call.input
    /\ call.time - _last_llm_call_time = LLM_DEBOUNCE_DELAY - 1

C19_DetectorRejectionFrame ==
    [][(/\ call'.n = call.n + 1
        /\ EntersLlmStage(call'.input)
        /\ ~should_process_with_llm(call'.input))
          => /\ call'.llmRet = call'.input
             /\ oracleTimes' = oracleTimes
             /\ UNCHANGED <<_llm_cache, _last_llm_call_time,
                            _last_llm_processed_text>>]_vars

C19_Witness ==
    /\ call.path = "skipped"
    /\ call.input = ThisAreATestAlso
    /\ _last_llm_processed_text = ThisAreATest
    /\ _llm_cache = <<[key |-> ThisAreATest, value |-> ThisAreATest]>>
    /\ call.time - _last_llm_call_time >= LLM_DEBOUNCE_DELAY

\* C20: a call that passes the detector and the debounce gate and whose
\* input is a key of the cache returns the cached value from the LLM
\* stage, invokes no oracle and leaves the cache, its order included, as it
\* was.
C20_CacheHitFrame ==
    [][(/\ call'.n = call.n + 1
        /\ EntersLlmStage(call'.input)
        /\ should_process_with_llm(call'.input)
        /\ call'.time - _last_llm_call_time >= LLM_DEBOUNCE_DELAY
        /\ CacheHas(_llm_cache, call'.input))
          => /\ call'.llmRet = CacheGet(_llm_cache, call'.input)
             /\ call'.path = "cachehit"
             /\ oracleTimes' = oracleTimes
             /\ asked' = asked
             /\ _llm_cache' = _llm_cache]_vars

C20_Witness ==
    /\ call.path = "cachehit"
    /\ call.llmRet # call.input
    /\ Len(_llm_cache) = LLM_CACHE_MAX_SIZE
    /\ _llm_cache[1].key = call.input

\* C21: after a call that invoked the oracle, whatever the outcome, the
\* cache holds the input as a key and maps it to what the LLM stage
\* returned.
C21_EveryInvocationMemoized ==
    call.path = "oracle" =>
        /\ CacheHas(_llm_cache, call.input)
        /\ CacheGet(_llm_cache, call.input) = call.llmRet

\* C22: after a call in which the oracle answered with status 200 and a
\* non-empty response text, _last_llm_processed_text is what the LLM stage
\* returned, when the sanitized response was accepted and when it failed
\* the validation.
C22_LastOutputTracksReturn ==
    (/\ call.path = "oracle"
     /\ call.reply.kind = "text"
     /\ Strip(call.reply.text, Whitespace) # <<>>)
        => _last_llm_processed_text = call.llmRet

\* C23: a call whose input differs from _last_processed_text leaves
\* _last_processed_text equal to its input, on every path, blank inputs
\* included.
C23_LastInputUpdated ==
    [][(call'.n = call.n + 1 /\ call'.input # _last_processed_text)
          => _last_processed_text' = call'.input]_vars

\* C24: after a call whose input passed the detector, whether it was then
\* debounced, answered from the cache or sent to the oracle,
\* _last_llm_processed_text is not left over from an earlier utterance: it
\* is empty, the input, what the LLM stage returned for the input, or what
\* the cache holds for it.
C24_NoStaleLastOutput ==
    call.path \in {"debounced", "cachehit", "oracle"} =>
        \/ _last_llm_processed_text \in {<<>>, call.input, call.llmRet}
        \/ /\ CacheHas(_llm_cache, call.input)
           /\ _last_llm_processed_text = CacheGet(_llm_cache, call.input)

\* the response of the last call's request after the whole sanitization
Sanitized(reply) == CleanResponseTable[Strip(reply.text, Whitespace)]

\* non-empty and 0.3 <= len(value) <= 2 * len(original)
WithinBounds(value, original) ==
    value # <<>> /\ 3 <= 10 * Len(value) /\ Len(value) <= 2 * Len(original)

\* C25: what the LLM stage returns is the input or the fully sanitized
\* oracle output for that input, non-empty and within the length bounds;
\* every cache entry maps its key to itself or to a non-empty value at most
\* twice as long; _last_llm_processed_text is only ever set to a sanitized
\* and validated oracle output.
C25_NoMalformedAnswer ==
    /\ [](call.n > 0 =>
            /\ \/ call.llmRet = call.input
               \/ /\ WithinBounds(call.llmRet, call.input)
                  /\ call.path \in {"oracle", "cachehit"}
                  /\ call.path = "oracle" => call.llmRet = Sanitized(call.reply)
                  /\ call.path = "cachehit" => call.llmRet = CacheGet(_llm_cache, call.input)
            /\ \A i \in 1..Len(_llm_cache) :
                  \/ _llm_cache[i].value = _llm_cache[i].key
                  \/ /\ _llm_cache[i].value # <<>>
                     /\ Len(_llm_cache[i].value) <= 2 * Len(_llm_cache[i].key))
    /\ [][_last_llm_processed_text' # _last_llm_processed_text =>
            /\ call'.path = "oracle"
            /\ call'.reply.kind = "text"
            /\ _last_llm_processed_text' = Sanitized(call'.reply)
            /\ WithinBounds(_last_llm_processed_text', call'.input)]_vars

C25_Witness ==
    /\ call.path = "cachehit"
    /\ call.llmRet # call.input
    /\ call.llmRet = Capitalize(call.input)
    /\ _last_llm_processed_text # call.llmRet

\* C29: whenever _last_llm_processed_text is non-empty, so is what is left
\* of it without its trailing . , ! ?, and some input that meets the word
\* and character thresholds passes the detector.
C29_DetectorNeverLocksOut ==
    _last_llm_processed_text # <<>> =>
        /\ RStrip(_last_llm_processed_text, SentencePunct) # <<>>
        /\ \E candidate \in Inputs \cup Utterances :
              should_process_with_llm(candidate)

\* C26: _last_llm_call_time changes only in a call that invokes the
\* oracle; a call that is skipped, debounced or answered from the cache
\* leaves it as it was.
C26_TimestampOnlyOnOracle ==
    [][_last_llm_call_time' # _last_llm_call_time => call'.path = "oracle"]_vars

\* C30: when a call was rejected by the debounce gate only and the next
\* call has the same input, LLM_DEBOUNCE_DELAY or more after the last
\* pass of the gate, that call reaches the cache lookup or the oracle.
C30_DebouncedIsRetried ==
    [][(/\ call.path = "debounced"
        /\ call'.n = call.n + 1
        /\ call'.input = call.input
        /\ call'.time - _last_llm_call_time >= LLM_DEBOUNCE_DELAY)
          => call'.path \in {"cachehit", "oracle"}]_vars

\* C27: a call that was waiting for its answer while a later call for
\* another text returned does not, when it commits and returns, overwrite
\* _last_processed_text with its input nor _last_llm_processed_text with
\* its accepted answer.
C27_StaleResultDiscarded ==
    \A th \in Threads :
        (threads[th].superseded /\ threads[th].pc = "done" /\ ~threads[th].raised) =>
            /\ _last_processed_text # threads[th].text
            /\ threads[th].accept => _last_llm_processed_text # threads[th].value

\* C28: a store for a key that was in the cache at the size check of the
\* store, and still is, removes no entry: the eviction step of such a
\* store leaves the cache as it is.
C28_UpdateNeverEvicts ==
    [][\A th \in Threads :
          (/\ threads[th].pc = "pop"
           /\ threads'[th].pc = "insert"
           /\ threads[th].had
           /\ CacheHas(_llm_cache, threads[th].text))
              => _llm_cache' = _llm_cache]_vars

=============================================================================
